---- MODULE Spec2Model ----
(***************************************************************************)
(* Model of the Table Gateway of src/app.py: a Flask application that maps *)
(* HTTP requests on /table/... to single SQL statements on a PostgreSQL    *)
(* database through psycopg2.  Every request is served by one worker, on   *)
(* its own connection and in its own transaction.                          *)
(*                                                                         *)
(* Values.  A column value or a JSON value is an optional scalar: NULL     *)
(* (Python None, SQL NULL) is the empty sequence and a present value v is  *)
(* the one-element sequence <<v>>.  A Python dict (JSON object, query      *)
(* string) is a sequence of <<key, value>> pairs in insertion order.       *)
(* A database row is a record with one field per column of its table.      *)
(* The inputs are well typed (text for text columns, numbers for numeric   *)
(* columns), so the database's type coercions are outside the model.       *)
(***************************************************************************)
EXTENDS Integers, Sequences, FiniteSets

VARIABLES
    db,     \* committed contents of each table: table name -> set of rows
    seq,    \* last value handed out by each table's SERIAL sequence
    now,    \* the wall clock read by datetime.now()
    pc,     \* per worker: "idle", "connected" (get_db returned), "executed"
    req,    \* per worker: the request being served (kept until the next one)
    conn,   \* per worker: "none", "open", or "leaked" (handler returned, no close())
    txn,    \* per worker: the uncommitted effect of its statement
    cur,    \* per worker: the rows its cursor holds for fetchone()/fetchall()
    resp    \* per worker: the response of its latest request (status 0: none yet)

vars == <<db, seq, now, pc, req, conn, txn, cur, resp>>

(***************************************************************************)
(* Bounds of the model.                                                    *)
(***************************************************************************)
MaxRows == 2      \* the SERIAL sequences hand out at most this many ids in all
MaxClock == 1     \* the clock ticks at most this many times

Workers == {"w1", "w2"}

NULL == << >>
Val(v) == <<v>>

(***************************************************************************)
(* Python dict operations used by the handlers.                            *)
(***************************************************************************)
HasKey(d, k) == \E i \in DOMAIN d : d[i][1] = k

\* dict.get(k): the value, or None when the key is absent
Get(d, k) == IF HasKey(d, k) THEN d[CHOOSE i \in DOMAIN d : d[i][1] = k][2] ELSE NULL

\* dict.get(k, default)
GetDefault(d, k, default) ==
    IF HasKey(d, k) THEN d[CHOOSE i \in DOMAIN d : d[i][1] = k][2] ELSE default

\* dict.keys(), as a set
Keys(d) == {d[i][1] : i \in DOMAIN d}

\* truth value of a dict: `not data`, `not filters`
Truthy(d) == Len(d) > 0

(***************************************************************************)
(* The allow-list and the schema.                                          *)
(***************************************************************************)
allowed_tables ==
    {"lab_tests", "medicines", "prescription", "vitals", "medical_history",
     "patients_registration", "chat_history", "image_analysis"}

\* The allow-list check with one more name let through.
NotAllowed_Lax(table_name) == table_name \notin allowed_tables \cup {"users"}

\* `table_name not in allowed_tables`
NotAllowed(table_name) == table_name \notin allowed_tables

\* The columns of each table.  chat_history: the column list of its INSERT
\* plus the returned key; image_analysis: the CREATE TABLE of the migration.
\* The other six tables are created outside this repository: they are taken
\* to have a SERIAL key `id` and the two data columns a (text), b (number).
Columns(t) ==
    CASE t = "chat_history" ->
           {"chat_id", "session_id", "patient_id", "prompt", "response", "timestamp"}
      [] t = "image_analysis" ->
           {"analysis_id", "patient_id", "session_id", "image_type",
            "original_image_url", "segmented_image_url", "description", "timestamp"}
      [] OTHER -> {"id", "a", "b"}

\* SQL `column = %s`: never true when either side is NULL
SqlEq(x, v) == x # NULL /\ v # NULL /\ x = v

(***************************************************************************)
(* Requests.  op is the route: GET, POST, DELETE on /table/<table_name>,   *)
(* DELETE_ID on /table/chat_history/<int:chat_id>, DELETE_SESSION on       *)
(* /table/chat_history/session/<session_id>.  args is the query string,    *)
(* hasjson says whether the request carries a JSON body, json is that body.*)
(***************************************************************************)
Request(op, table, args, hasjson, json, chat_id, session_id) ==
    [op |-> op, table |-> table, args |-> args, hasjson |-> hasjson,
     json |-> json, chat_id |-> chat_id, session_id |-> session_id]

NoReq == Request("NONE", "", << >>, FALSE, << >>, 0, "")

TableNames == {"chat_history", "image_analysis", "vitals", "users"}

ChatBodies ==
    { << <<"session_id", Val("s1")>>, <<"patient_id", Val("p1")>>,
         <<"prompt", Val("hi")>>, <<"response", Val("hello")>> >>,
      << <<"session_id", Val("s2")>>, <<"patient_id", Val("p1")>>,
         <<"timestamp", Val(7)>> >> }

ImageBodies ==
    { << <<"patient_id", Val("p1")>> >>,
      << <<"patient_id", Val("p1")>>, <<"image_type", Val("xray")>>,
         <<"timestamp", Val(7)>> >>,
      << <<"patient_id", Val("p1")>>, <<"image_type", NULL>> >>,
      << <<"image_type", Val("xray")>> >> }

GenericBodies ==
    { << <<"a", Val("x")>>, <<"b", Val(1)>> >>,
      << <<"a", Val("x")>> >>,
      << <<"nosuch", Val("z")>> >> }

\* The JSON bodies posted to each table; << >> is the body {}.
Bodies(t) ==
    CASE t = "chat_history" -> ChatBodies \cup {<< >>}
      [] t = "image_analysis" -> ImageBodies
      [] t = "vitals" -> GenericBodies
      [] OTHER -> {<< <<"a", Val("x")>> >>}

\* The query strings sent with a DELETE on each table; << >> is none.
QueryStrings(t) ==
    CASE t = "chat_history" -> {<< >>, << <<"session_id", "s1">> >>}
      [] t = "image_analysis" -> {<< >>}
      [] OTHER -> {<< >>, << <<"a", "x">> >>}

\* The JSON filter bodies sent with a DELETE on each table; << >> is {}.
JsonFilters(t) ==
    CASE t = "chat_history" -> {<< <<"chat_id", Val(1)>> >>, << <<"nosuch", Val("z")>> >>}
      [] t = "vitals" ->
           {<< >>,
            << <<"a", Val("x")>>, <<"b", Val(1)>> >>,
            << <<"b", NULL>> >>,
            << <<"nosuch", Val("z")>> >>}
      [] OTHER -> {}

GetRequests == {Request("GET", t, << >>, FALSE, << >>, 0, "") : t \in TableNames}

PostRequests ==
    UNION {{Request("POST", t, << >>, TRUE, d, 0, "") : d \in Bodies(t)} : t \in TableNames}
    \cup {Request("POST", t, << >>, FALSE, << >>, 0, "") : t \in {"vitals", "users"}}

DeleteRequests ==
    UNION {{Request("DELETE", t, q, FALSE, << >>, 0, "") : q \in QueryStrings(t)}
             \cup {Request("DELETE", t, << >>, TRUE, d, 0, "") : d \in JsonFilters(t)} :
           t \in TableNames}

DeleteIdRequests ==
    {Request("DELETE_ID", "chat_history", << >>, FALSE, << >>, i, "") : i \in 1..MaxRows}

DeleteSessionRequests ==
    {Request("DELETE_SESSION", "chat_history", << >>, FALSE, << >>, 0, s) : s \in {"s1", "s2"}}

(***************************************************************************)
(* request.args.to_dict(): the query string as a dict of text values.      *)
(***************************************************************************)
ArgsToDict(r) == [i \in DOMAIN r.args |-> <<r.args[i][1], Val(r.args[i][2])>>]

(***************************************************************************)
(* request.get_json().  With a JSON body it returns the parsed body.       *)
(* Without one, the outcome depends on the installed Flask: None (before   *)
(* 2.1), or an HTTPException (415/400) raised, which the handler's         *)
(* `except Exception` turns into a 500.                                    *)
(***************************************************************************)
GetJson(r) ==
    IF r.hasjson
    THEN {[raised |-> FALSE, data |-> r.json]}
    ELSE {[raised |-> FALSE, data |-> NULL], [raised |-> TRUE, data |-> NULL]}

(***************************************************************************)
(* Responses.                                                              *)
(***************************************************************************)
Response(status, handler, table, rows, count, ids, result) ==
    [status |-> status, handler |-> handler, table |-> table, rows |-> rows,
     count |-> count, ids |-> ids, result |-> result]

NoResp == Response(0, "", "", {}, 0, {}, NULL)

\* jsonify({"error": ...}), status
Error(status, handler) == Response(status, handler, "", {}, 0, {}, NULL)

NoTxn == [table |-> "", ins |-> {}, del |-> {}]

Init ==
    /\ db = [t \in allowed_tables |-> {}]
    /\ seq = [t \in allowed_tables |-> 0]
    /\ now = 0
    /\ pc = [w \in Workers |-> "idle"]
    /\ req = [w \in Workers |-> NoReq]
    /\ conn = [w \in Workers |-> "none"]
    /\ txn = [w \in Workers |-> NoTxn]
    /\ cur = [w \in Workers |-> {}]
    /\ resp = [w \in Workers |-> NoResp]

(***************************************************************************)
(* Steps shared by the handlers.                                           *)
(***************************************************************************)
\* A worker is free to take a request.
Free(w) == pc[w] = "idle" /\ conn[w] = "none"

\* The handler returns before get_db(): no connection, no statement.
Reject(w, r, response) ==
    /\ req' = [req EXCEPT ![w] = r]
    /\ resp' = [resp EXCEPT ![w] = response]
    /\ UNCHANGED <<db, seq, now, pc, conn, txn, cur>>

\* conn = get_db(); cur = conn.cursor(...): psycopg2.connect returns a
\* connection or raises, and the handler answers 500.
Connect(w, r, handler) ==
    \E ok \in BOOLEAN :
        /\ req' = [req EXCEPT ![w] = r]
        /\ IF ok
           THEN /\ pc' = [pc EXCEPT ![w] = "connected"]
                /\ conn' = [conn EXCEPT ![w] = "open"]
                /\ resp' = [resp EXCEPT ![w] = NoResp]
           ELSE /\ resp' = [resp EXCEPT ![w] = Error(500, handler)]
                /\ UNCHANGED <<pc, conn>>
        /\ UNCHANGED <<db, seq, now, txn, cur>>

\* An exception after get_db(): the except clause answers 500; the handler
\* never reaches conn.close(), so the connection and its open transaction
\* outlive the response.
Raise(w, handler) ==
    /\ resp' = [resp EXCEPT ![w] = Error(500, handler)]
    /\ pc' = [pc EXCEPT ![w] = "idle"]
    /\ conn' = [conn EXCEPT ![w] = "leaked"]

\* The number of ids the sequences have handed out.
Issued == seq["chat_history"] + seq["image_analysis"] + seq["vitals"]

\* Rows of table t that another connection's uncommitted DELETE holds locked.
LockedByOther(w, t) ==
    UNION {txn[o].del : o \in {x \in Workers \ {w} : txn[x].table = t}}

(***************************************************************************)
(* GET /table/<table_name>: get_table.                                     *)
(***************************************************************************)
get_table_Begin(w, r) ==
    /\ Free(w)
    /\ r \in GetRequests
    /\ IF NotAllowed(r.table)
       THEN Reject(w, r, Error(400, "get_table"))
       ELSE Connect(w, r, "get_table")

\* cur.execute("SELECT * FROM t"); records = cur.fetchall(); cur.close();
\* conn.close(); 200 with table, count, data.  The SELECT reads the
\* committed rows.
get_table_Query(w) ==
    /\ pc[w] = "connected"
    /\ req[w].op = "GET"
    /\ \E ok \in BOOLEAN :
         IF ok
         THEN LET records == db[req[w].table] IN
              /\ resp' = [resp EXCEPT ![w] =
                            Response(200, "get_table", req[w].table, records,
                                     Cardinality(records), {}, NULL)]
              /\ pc' = [pc EXCEPT ![w] = "idle"]
              /\ conn' = [conn EXCEPT ![w] = "none"]
         ELSE Raise(w, "get_table")
    /\ UNCHANGED <<db, seq, now, req, txn, cur>>

(***************************************************************************)
(* POST /table/<table_name>: insert_into_table.                            *)
(***************************************************************************)
insert_into_table_Begin(w, r) ==
    /\ Free(w)
    /\ r \in PostRequests
    /\ IF NotAllowed(r.table)
       THEN Reject(w, r, Error(400, "insert_into_table"))
       ELSE \E j \in GetJson(r) :
              IF j.raised
              THEN Reject(w, r, Error(500, "insert_into_table"))
              ELSE IF ~Truthy(j.data)
                   THEN Reject(w, r, Error(400, "insert_into_table"))
                   ELSE Connect(w, r, "insert_into_table")

\* The row of INSERT INTO chat_history (session_id, patient_id, prompt,
\* response, timestamp) VALUES (..., datetime.now()) RETURNING chat_id.
ChatRow(data, id, clock) ==
    [chat_id |-> Val(id),
     session_id |-> Get(data, "session_id"),
     patient_id |-> Get(data, "patient_id"),
     prompt |-> Get(data, "prompt"),
     response |-> Get(data, "response"),
     timestamp |-> Val(clock)]

\* image_type read with data.get('image_type'), without the default.
ImageRow_NoDefault(data, id) ==
    [analysis_id |-> Val(id),
     patient_id |-> Get(data, "patient_id"),
     session_id |-> Get(data, "session_id"),
     image_type |-> Get(data, "image_type"),
     original_image_url |-> Get(data, "original_image_url"),
     segmented_image_url |-> Get(data, "segmented_image_url"),
     description |-> Get(data, "description"),
     timestamp |-> Get(data, "timestamp")]

\* The row of INSERT INTO image_analysis (...) VALUES (..., to_timestamp(%s))
\* RETURNING analysis_id; to_timestamp(NULL) is NULL.
ImageRow(data, id) ==
    [analysis_id |-> Val(id),
     patient_id |-> Get(data, "patient_id"),
     session_id |-> Get(data, "session_id"),
     image_type |-> GetDefault(data, "image_type", Val("surgical_frame")),
     original_image_url |-> Get(data, "original_image_url"),
     segmented_image_url |-> Get(data, "segmented_image_url"),
     description |-> Get(data, "description"),
     timestamp |-> Get(data, "timestamp")]

\* The row of INSERT INTO t (<keys>) VALUES (<values>): the supplied
\* columns, the SERIAL key, NULL elsewhere.
GenericRow(data, id) ==
    [id |-> IF HasKey(data, "id") THEN Get(data, "id") ELSE Val(id),
     a |-> Get(data, "a"), b |-> Get(data, "b")]

InsertRow(t, data, id, clock) ==
    CASE t = "chat_history" -> ChatRow(data, id, clock)
      [] t = "image_analysis" -> ImageRow(data, id)
      [] OTHER -> GenericRow(data, id)

\* The database rejects the INSERT: patient_id of image_analysis is NOT NULL;
\* a generic INSERT names a column the table does not have.
InsertFails(t, data) ==
    CASE t = "chat_history" -> FALSE
      [] t = "image_analysis" -> Get(data, "patient_id") = NULL
      [] OTHER -> ~(Keys(data) \subseteq Columns(t))

\* What the INSERT returns: RETURNING chat_id / analysis_id for the two
\* specialized tables, nothing (cur.description is None) for the others.
Returning(t, id) ==
    CASE t = "chat_history" -> {[chat_id |-> Val(id)]}
      [] t = "image_analysis" -> {[analysis_id |-> Val(id)]}
      [] OTHER -> {}

\* cur.execute(INSERT ...).  A NOT NULL violation is found after the
\* sequence has advanced; an unknown column before.
insert_into_table_Execute(w) ==
    /\ pc[w] = "connected"
    /\ req[w].op = "POST"
    /\ LET t == req[w].table
           data == req[w].json
           id == seq[t] + 1
       IN /\ Issued < MaxRows
          /\ \E ok \in BOOLEAN :
               IF ok /\ ~InsertFails(t, data)
               THEN /\ seq' = [seq EXCEPT ![t] = id]
                    /\ txn' = [txn EXCEPT ![w] =
                                 [table |-> t, ins |-> {InsertRow(t, data, id, now)},
                                  del |-> {}]]
                    /\ cur' = [cur EXCEPT ![w] = Returning(t, id)]
                    /\ pc' = [pc EXCEPT ![w] = "executed"]
                    /\ UNCHANGED <<conn, resp>>
               ELSE /\ seq' = IF ok /\ t = "image_analysis"
                              THEN [seq EXCEPT ![t] = id] ELSE seq
                    /\ Raise(w, "insert_into_table")
                    /\ UNCHANGED <<txn, cur>>
    /\ UNCHANGED <<db, now, req>>

\* cur.fetchone() of a RETURNING statement: the row, as the id it carries
FetchResult(rows) ==
    IF rows = {} THEN NULL
    ELSE LET d == CHOOSE x \in rows : TRUE
         IN  IF "chat_id" \in DOMAIN d THEN d.chat_id ELSE d.analysis_id

\* The handler without its conn.commit(): the INSERT is rolled back at close.
CommitInsert_Missing(w) == db

\* conn.commit() of an INSERT: the new row becomes visible to everyone.
CommitInsert(w) == [db EXCEPT ![txn[w].table] = @ \cup txn[w].ins]

\* conn.commit(); result = cur.fetchone() if cur.description else None;
\* cur.close(); conn.close(); 201.  The commit comes first: a failure of
\* the fetch leaves the row inserted.
insert_into_table_Finish(w) ==
    /\ pc[w] = "executed"
    /\ req[w].op = "POST"
    /\ db' = CommitInsert(w)
    /\ txn' = [txn EXCEPT ![w] = NoTxn]
    /\ cur' = [cur EXCEPT ![w] = {}]
    /\ \E ok \in BOOLEAN :
         IF ok \/ cur[w] = {}
         THEN /\ resp' = [resp EXCEPT ![w] =
                            Response(201, "insert_into_table", req[w].table, {}, 0,
                                     {}, FetchResult(cur[w]))]
              /\ pc' = [pc EXCEPT ![w] = "idle"]
              /\ conn' = [conn EXCEPT ![w] = "none"]
         ELSE Raise(w, "insert_into_table")
    /\ UNCHANGED <<seq, now, req>>

(***************************************************************************)
(* DELETE /table/<table_name>: delete_from_table.                          *)
(***************************************************************************)
\* filters = request.args.to_dict() or request.get_json() or {}
Filters(r, j) == IF Truthy(ArgsToDict(r)) THEN ArgsToDict(r) ELSE j

delete_from_table_Begin(w, r) ==
    /\ Free(w)
    /\ r \in DeleteRequests
    /\ IF NotAllowed(r.table)
       THEN Reject(w, r, Error(400, "delete_from_table"))
       ELSE IF Truthy(ArgsToDict(r))
            THEN Connect(w, r, "delete_from_table")
            ELSE \E j \in GetJson(r) :
                   IF j.raised
                   THEN Reject(w, r, Error(500, "delete_from_table"))
                   ELSE IF ~Truthy(Filters(r, j.data))
                        THEN Reject(w, r, Error(400, "delete_from_table"))
                        ELSE Connect(w, r, "delete_from_table")

\* The conditions joined with OR instead of AND.
Matches_Any(row, filters) ==
    \E i \in DOMAIN filters : SqlEq(row[filters[i][1]], filters[i][2])

\* WHERE k1 = %s AND k2 = %s ...: one equality per filter key
Matches(row, filters) ==
    \A i \in DOMAIN filters : SqlEq(row[filters[i][1]], filters[i][2])

\* The rows DELETE FROM t WHERE ... RETURNING * removes and returns
DeleteWhere(t, filters) == {row \in db[t] : Matches(row, filters)}

\* cur.execute(delete_query, values).  A filter key that is no column of
\* the table fails the statement.  The statement waits while a row it would
\* delete is locked by another connection's uncommitted DELETE.
delete_from_table_Execute(w) ==
    /\ pc[w] = "connected"
    /\ req[w].op = "DELETE"
    /\ LET t == req[w].table
           filters == Filters(req[w], req[w].json)
       IN \E ok \in BOOLEAN :
            IF ok /\ Keys(filters) \subseteq Columns(t)
            THEN /\ DeleteWhere(t, filters) \cap LockedByOther(w, t) = {}
                 /\ txn' = [txn EXCEPT ![w] =
                              [table |-> t, ins |-> {}, del |-> DeleteWhere(t, filters)]]
                 /\ cur' = [cur EXCEPT ![w] = DeleteWhere(t, filters)]
                 /\ pc' = [pc EXCEPT ![w] = "executed"]
                 /\ UNCHANGED <<conn, resp>>
            ELSE /\ Raise(w, "delete_from_table")
                 /\ UNCHANGED <<txn, cur>>
    /\ UNCHANGED <<db, seq, now, req>>

\* The handler without its conn.commit(): the DELETE is rolled back at close.
Commit_Missing(w) == db

\* conn.commit() of a DELETE: the rows it removed are gone for everyone.
Commit(w) == [db EXCEPT ![txn[w].table] = @ \ txn[w].del]

\* deleted_records = cur.fetchall(); conn.commit(); cur.close(); conn.close();
\* 200 with deleted_count and deleted_records.
delete_from_table_Finish(w) ==
    /\ pc[w] = "executed"
    /\ req[w].op = "DELETE"
    /\ \E ok \in BOOLEAN :
         IF ok
         THEN LET deleted_records == cur[w] IN
              /\ db' = Commit(w)
              /\ txn' = [txn EXCEPT ![w] = NoTxn]
              /\ cur' = [cur EXCEPT ![w] = {}]
              /\ resp' = [resp EXCEPT ![w] =
                            Response(200, "delete_from_table", req[w].table,
                                     deleted_records, Cardinality(deleted_records),
                                     {}, NULL)]
              /\ pc' = [pc EXCEPT ![w] = "idle"]
              /\ conn' = [conn EXCEPT ![w] = "none"]
         ELSE /\ Raise(w, "delete_from_table")
              /\ UNCHANGED <<db, txn, cur>>
    /\ UNCHANGED <<seq, now, req>>

(***************************************************************************)
(* DELETE /table/chat_history/<int:chat_id>: delete_chat_by_id.            *)
(***************************************************************************)
delete_chat_by_id_Begin(w, r) ==
    /\ Free(w)
    /\ r \in DeleteIdRequests
    /\ Connect(w, r, "delete_chat_by_id")

\* The statement without its WHERE clause.
DeleteById_NoWhere(chat_id) == db["chat_history"]

\* DELETE FROM chat_history WHERE chat_id = %s RETURNING *
DeleteById(chat_id) ==
    {row \in db["chat_history"] : SqlEq(row.chat_id, Val(chat_id))}

delete_chat_by_id_Execute(w) ==
    /\ pc[w] = "connected"
    /\ req[w].op = "DELETE_ID"
    /\ \E ok \in BOOLEAN :
         IF ok
         THEN /\ DeleteById(req[w].chat_id) \cap LockedByOther(w, "chat_history") = {}
              /\ txn' = [txn EXCEPT ![w] =
                           [table |-> "chat_history", ins |-> {},
                            del |-> DeleteById(req[w].chat_id)]]
              /\ cur' = [cur EXCEPT ![w] = DeleteById(req[w].chat_id)]
              /\ pc' = [pc EXCEPT ![w] = "executed"]
              /\ UNCHANGED <<conn, resp>>
         ELSE /\ Raise(w, "delete_chat_by_id")
              /\ UNCHANGED <<txn, cur>>
    /\ UNCHANGED <<db, seq, now, req>>

\* The answer without the `if deleted:` test.
ByIdResponse_Always200(deleted) ==
    Response(200, "delete_chat_by_id", "chat_history", deleted, 0, {}, NULL)

\* `if deleted:` 200 with deleted_record, else 404
ByIdResponse(deleted) ==
    IF deleted # {}
    THEN Response(200, "delete_chat_by_id", "chat_history", deleted, 0, {}, NULL)
    ELSE Error(404, "delete_chat_by_id")

\* deleted = cur.fetchone(); conn.commit(); cur.close(); conn.close()
delete_chat_by_id_Finish(w) ==
    /\ pc[w] = "executed"
    /\ req[w].op = "DELETE_ID"
    /\ \E ok \in BOOLEAN :
         IF ok
         THEN /\ db' = Commit(w)
              /\ txn' = [txn EXCEPT ![w] = NoTxn]
              /\ cur' = [cur EXCEPT ![w] = {}]
              /\ resp' = [resp EXCEPT ![w] = ByIdResponse(cur[w])]
              /\ pc' = [pc EXCEPT ![w] = "idle"]
              /\ conn' = [conn EXCEPT ![w] = "none"]
         ELSE /\ Raise(w, "delete_chat_by_id")
              /\ UNCHANGED <<db, txn, cur>>
    /\ UNCHANGED <<seq, now, req>>

(***************************************************************************)
(* DELETE /table/chat_history/session/<session_id>: delete_session_chats.  *)
(***************************************************************************)
delete_session_chats_Begin(w, r) ==
    /\ Free(w)
    /\ r \in DeleteSessionRequests
    /\ Connect(w, r, "delete_session_chats")

\* DELETE FROM chat_history WHERE session_id = %s RETURNING chat_id
DeleteBySession(session_id) ==
    {row \in db["chat_history"] : SqlEq(row.session_id, Val(session_id))}

delete_session_chats_Execute(w) ==
    /\ pc[w] = "connected"
    /\ req[w].op = "DELETE_SESSION"
    /\ \E ok \in BOOLEAN :
         IF ok
         THEN /\ DeleteBySession(req[w].session_id)
                    \cap LockedByOther(w, "chat_history") = {}
              /\ txn' = [txn EXCEPT ![w] =
                           [table |-> "chat_history", ins |-> {},
                            del |-> DeleteBySession(req[w].session_id)]]
              /\ cur' = [cur EXCEPT ![w] =
                           {[chat_id |-> row.chat_id] :
                              row \in DeleteBySession(req[w].session_id)}]
              /\ pc' = [pc EXCEPT ![w] = "executed"]
              /\ UNCHANGED <<conn, resp>>
         ELSE /\ Raise(w, "delete_session_chats")
              /\ UNCHANGED <<txn, cur>>
    /\ UNCHANGED <<db, seq, now, req>>

\* [d['chat_id'] for d in deleted]
ChatIds(deleted) == {d.chat_id[1] : d \in deleted}

\* deleted = cur.fetchall(); conn.commit(); cur.close(); conn.close();
\* 200 with deleted_count and deleted_chat_ids.
delete_session_chats_Finish(w) ==
    /\ pc[w] = "executed"
    /\ req[w].op = "DELETE_SESSION"
    /\ \E ok \in BOOLEAN :
         IF ok
         THEN LET deleted == cur[w] IN
              /\ db' = Commit(w)
              /\ txn' = [txn EXCEPT ![w] = NoTxn]
              /\ cur' = [cur EXCEPT ![w] = {}]
              /\ resp' = [resp EXCEPT ![w] =
                            Response(200, "delete_session_chats", "chat_history", {},
                                     Cardinality(deleted), ChatIds(deleted), NULL)]
              /\ pc' = [pc EXCEPT ![w] = "idle"]
              /\ conn' = [conn EXCEPT ![w] = "none"]
         ELSE /\ Raise(w, "delete_session_chats")
              /\ UNCHANGED <<db, txn, cur>>
    /\ UNCHANGED <<seq, now, req>>

(***************************************************************************)
(* The environment.                                                        *)
(***************************************************************************)
\* A connection the handler left open is closed when the runtime reclaims
\* the connection object; the server then rolls its open transaction back.
Reclaim(w) ==
    /\ conn[w] = "leaked"
    /\ conn' = [conn EXCEPT ![w] = "none"]
    /\ txn' = [txn EXCEPT ![w] = NoTxn]
    /\ cur' = [cur EXCEPT ![w] = {}]
    /\ UNCHANGED <<db, seq, now, pc, req, resp>>

\* Time passes.
Tick ==
    /\ now < MaxClock
    /\ now' = now + 1
    /\ UNCHANGED <<db, seq, pc, req, conn, txn, cur, resp>>

\* One worker process serving one request at a time.
Serial == {"w1"}

Next ==
    \/ \E w \in Serial : \E r \in GetRequests : get_table_Begin(w, r)
    \/ \E w \in Serial : get_table_Query(w)
    \/ \E w \in Serial : \E r \in PostRequests : insert_into_table_Begin(w, r)
    \/ \E w \in Serial : insert_into_table_Execute(w)
    \/ \E w \in Serial : insert_into_table_Finish(w)
    \/ \E w \in Serial : \E r \in DeleteRequests : delete_from_table_Begin(w, r)
    \/ \E w \in Serial : delete_from_table_Execute(w)
    \/ \E w \in Serial : delete_from_table_Finish(w)
    \/ \E w \in Serial : \E r \in DeleteIdRequests : delete_chat_by_id_Begin(w, r)
    \/ \E w \in Serial : delete_chat_by_id_Execute(w)
    \/ \E w \in Serial : delete_chat_by_id_Finish(w)
    \/ \E w \in Serial : \E r \in DeleteSessionRequests : delete_session_chats_Begin(w, r)
    \/ \E w \in Serial : delete_session_chats_Execute(w)
    \/ \E w \in Serial : delete_session_chats_Finish(w)
    \/ \E w \in Serial : Reclaim(w)
    \/ Tick

Spec == Init /\ [][Next]_vars

(***************************************************************************)
(* Concurrent workers on chat_history.                                     *)
(***************************************************************************)
IsChat(r) == r.table = "chat_history" /\ (r.hasjson => r.json # << >>)

NextConc ==
    \/ \E w \in Workers : \E r \in {x \in DeleteRequests : IsChat(x)} :
           delete_from_table_Begin(w, r)
    \/ \E w \in Workers : delete_from_table_Execute(w)
    \/ \E w \in Workers : delete_from_table_Finish(w)
    \/ \E w \in Workers : \E r \in {x \in PostRequests : IsChat(x)} :
           insert_into_table_Begin(w, r)
    \/ \E w \in Workers : insert_into_table_Execute(w)
    \/ \E w \in Workers : insert_into_table_Finish(w)
    \/ \E w \in Workers : \E r \in DeleteIdRequests : delete_chat_by_id_Begin(w, r)
    \/ \E w \in Workers : delete_chat_by_id_Execute(w)
    \/ \E w \in Workers : delete_chat_by_id_Finish(w)
    \/ \E w \in Workers : \E r \in DeleteSessionRequests : delete_session_chats_Begin(w, r)
    \/ \E w \in Workers : delete_session_chats_Execute(w)
    \/ \E w \in Workers : delete_session_chats_Finish(w)
    \/ \E w \in Workers : Reclaim(w)

SpecConc == Init /\ [][NextConc]_vars

(***************************************************************************)
(* Two DELETE /table/chat_history/<id> requests racing on a table that     *)
(* holds the rows of two earlier POSTs: each worker serves one request.    *)
(***************************************************************************)
RaceRows ==
    {ChatRow(d, IF Get(d, "session_id") = Val("s1") THEN 1 ELSE 2, 0) : d \in ChatBodies}

InitRace ==
    /\ db = [t \in allowed_tables |-> IF t = "chat_history" THEN RaceRows ELSE {}]
    /\ seq = [t \in allowed_tables |-> IF t = "chat_history" THEN 2 ELSE 0]
    /\ now = 0
    /\ pc = [w \in Workers |-> "idle"]
    /\ req = [w \in Workers |-> NoReq]
    /\ conn = [w \in Workers |-> "none"]
    /\ txn = [w \in Workers |-> NoTxn]
    /\ cur = [w \in Workers |-> {}]
    /\ resp = [w \in Workers |-> NoResp]

NextRace ==
    \/ \E w \in Workers : \E r \in DeleteIdRequests :
           req[w] = NoReq /\ delete_chat_by_id_Begin(w, r)
    \/ \E w \in Workers : delete_chat_by_id_Execute(w)
    \/ \E w \in Workers : delete_chat_by_id_Finish(w)
    \/ \E w \in Workers : Reclaim(w)

SpecRace == InitRace /\ [][NextRace]_vars

(***************************************************************************)
(* Properties.                                                             *)
(***************************************************************************)
\* Worker w has just answered a request in this step.
Answered(w) == <<req[w], resp[w]>> # <<req'[w], resp'[w]>> /\ resp'[w].status # 0

\* C1: a GET, POST or DELETE on /table/{name} whose name is not one of the
\* eight allow-listed names is answered 400; no connection is opened, no
\* statement is executed and no table changes.
C1_UnknownTableRejected ==
    [][\A w \in Workers :
         (req'[w].op \in {"GET", "POST", "DELETE"}
            /\ req'[w].table \notin
                 {"lab_tests", "medicines", "prescription", "vitals", "medical_history",
                  "patients_registration", "chat_history", "image_analysis"})
         => /\ resp'[w].status = 400
            /\ pc'[w] = "idle" /\ conn'[w] = "none"
            /\ Answered(w) =>
                 /\ conn[w] = "none"
                 /\ UNCHANGED <<db, seq, pc, conn, txn, cur>>]_vars

C1_Witness ==
    \E w \in Workers :
        /\ req[w].op = "DELETE" /\ req[w].table = "users" /\ Truthy(req[w].args)
        /\ resp[w].status = 400
        /\ db["vitals"] # {}

\* C2: a DELETE on an allow-listed table with no query parameters and no
\* JSON body is answered 400, without a connection and without a change.
C2_EmptyFilterRejected ==
    [][\A w \in Workers :
         (req'[w].op = "DELETE" /\ req'[w].table \in allowed_tables
            /\ req'[w].args = << >> /\ ~req'[w].hasjson)
         => /\ resp'[w].status = 400
            /\ pc'[w] = "idle" /\ conn'[w] = "none"
            /\ Answered(w) => UNCHANGED <<db, seq, pc, conn, txn, cur>>]_vars

\* Steps of worker w, seen from outside: its statement has just executed;
\* its handler has just answered without a database error.
Executed(w) == pc[w] = "connected" /\ pc'[w] = "executed"
Finished(w) == pc[w] = "executed" /\ pc'[w] = "idle" /\ resp'[w].status # 500

\* Table t loses exactly the rows gone; nothing else changes.
Removes(t, gone) ==
    /\ gone \subseteq db[t]
    /\ db'[t] = db[t] \ gone
    /\ \A u \in allowed_tables \ {t} : db'[u] = db[u]

\* C3: DELETE /table/chat_history/{id}: when no row has chat_id = id the
\* answer is 404 and the table is unchanged; when one has, the answer is 200
\* carrying exactly that row, the row is gone afterwards and stays gone, and
\* every other row is unchanged (a database error, 500, aside).
C3_DeleteById ==
    [][\A w \in Workers :
         /\ (req[w].op = "DELETE_ID" /\ Executed(w)) =>
              cur'[w] = {row \in db["chat_history"] : row.chat_id = <<req[w].chat_id>>}
         /\ (req[w].op = "DELETE_ID" /\ Finished(w)) =>
              IF cur[w] = {}
              THEN resp'[w].status = 404 /\ db' = db
              ELSE /\ resp'[w].status = 200
                   /\ resp'[w].rows = cur[w]
                   /\ Cardinality(cur[w]) = 1
                   /\ Removes("chat_history", cur[w])
         /\ (resp'[w].handler = "delete_chat_by_id" /\ resp'[w].status = 200) =>
              \A row \in db'["chat_history"] : row.chat_id # <<req'[w].chat_id>>]_vars

C3_Witness ==
    \E w \in Workers :
        /\ resp[w].handler = "delete_chat_by_id" /\ resp[w].status = 200
        /\ \E row \in resp[w].rows : row.chat_id = <<req[w].chat_id>>
        /\ db["chat_history"] # {}

\* C4: DELETE /table/{name} with a non-empty filter set whose keys are
\* columns removes exactly the rows that equal the filter value on every
\* filter key, answers 200 with those rows and their number, and leaves the
\* other rows and tables unchanged; when no row matches it answers 200 with
\* count 0 and no rows (a database error, 500, aside).
C4_DeleteByFilter ==
    [][\A w \in Workers :
         LET t == req[w].table
             f == IF req[w].args # << >> THEN ArgsToDict(req[w]) ELSE req[w].json
         IN /\ (req[w].op = "DELETE" /\ pc[w] = "connected" /\ pc'[w] # "connected"
                  /\ \A i \in DOMAIN f : f[i][1] \in Columns(t)) =>
                 \/ /\ pc'[w] = "executed"
                    /\ cur'[w] = {row \in db[t] :
                                    \A i \in DOMAIN f :
                                       /\ f[i][2] # NULL
                                       /\ row[f[i][1]] = f[i][2]}
                    /\ db' = db
                 \/ /\ pc'[w] = "idle"
                    /\ resp'[w].status = 500
                    /\ db' = db
            /\ (req[w].op = "DELETE" /\ pc[w] = "executed" /\ pc'[w] = "idle") =>
                 \/ /\ resp'[w].status = 200
                    /\ resp'[w].rows = cur[w]
                    /\ resp'[w].count = Cardinality(cur[w])
                    /\ Removes(t, cur[w])
                 \/ /\ resp'[w].status = 500
                    /\ db' = db]_vars

C4_Witness ==
    \E w \in Workers :
        /\ resp[w].handler = "delete_from_table" /\ resp[w].status = 200
        /\ Len(req[w].json) = 2
        /\ resp[w].count = 1
        /\ db[req[w].table] # {}

\* A second case of C4: a filter that matches no row is answered 200 with
\* count 0 while the table holds rows.
C4_WitnessNoMatch ==
    \E w \in Workers :
        /\ resp[w].handler = "delete_from_table" /\ resp[w].status = 200
        /\ resp[w].count = 0 /\ resp[w].rows = {}
        /\ db[req[w].table] # {}

\* C5: after a successful POST of a non-empty field map to a table other
\* than chat_history and image_analysis, the table holds one row more, a new
\* row that carries the supplied value for every supplied key, and a GET of
\* the table returns the table's rows and their number.
C5_InsertThenList ==
    [][\A w \in Workers :
         /\ (req[w].op = "POST" /\ Finished(w)
               /\ req[w].table \notin {"chat_history", "image_analysis"}) =>
              LET t == req[w].table
                  data == req[w].json
              IN /\ resp'[w].status = 201
                 /\ Cardinality(db'[t]) = Cardinality(db[t]) + 1
                 /\ db[t] \subseteq db'[t]
                 /\ \E row \in db'[t] \ db[t] :
                       \A i \in DOMAIN data : row[data[i][1]] = data[i][2]
         /\ (req[w].op = "GET" /\ pc[w] = "connected" /\ resp'[w].status = 200) =>
              /\ resp'[w].rows = db[req[w].table]
              /\ resp'[w].count = Cardinality(db[req[w].table])
              /\ db' = db]_vars

\* A GET of a non-specialized table has returned a row posted earlier.
C5_Witness ==
    \E w \in Workers :
        /\ resp[w].handler = "get_table" /\ resp[w].status = 200
        /\ resp[w].table = "vitals" /\ resp[w].count = 2
        /\ \E row \in resp[w].rows : row.a = <<"x">> /\ row.b = <<1>>

\* C6: DELETE /table/chat_history/session/{session_id} removes all and only
\* the rows whose session_id is the given one and answers 200 with their
\* chat_ids and their number; rows of other sessions are unchanged (a
\* database error, 500, aside).
C6_DeleteSession ==
    [][\A w \in Workers :
         LET mine == {row \in db["chat_history"] : row.session_id = <<req[w].session_id>>}
         IN /\ (req[w].op = "DELETE_SESSION" /\ Executed(w)) =>
                 cur'[w] = {[chat_id |-> row.chat_id] : row \in mine}
            /\ (req[w].op = "DELETE_SESSION" /\ Finished(w)) =>
                 LET gone == {row \in db["chat_history"] :
                                [chat_id |-> row.chat_id] \in cur[w]}
                 IN /\ resp'[w].status = 200
                    /\ resp'[w].ids = {row.chat_id[1] : row \in gone}
                    /\ resp'[w].count = Cardinality(gone)
                    /\ Cardinality(gone) = Cardinality(cur[w])
                    /\ gone \subseteq mine
                    /\ Removes("chat_history", gone)]_vars

\* One worker's POST with session s1 returned chat_id c; the other's delete
\* of session s1 answered deleted_count 1 and [c], a row of s2 remaining.
C6_Witness ==
    \E w, o \in Workers :
        /\ resp[w].handler = "delete_session_chats" /\ resp[w].status = 200
        /\ req[w].session_id = "s1"
        /\ resp[o].handler = "insert_into_table" /\ resp[o].status = 201
        /\ Get(req[o].json, "session_id") = <<"s1">>
        /\ resp[w].count = 1 /\ resp[w].ids = {resp[o].result[1]}
        /\ db["chat_history"] # {}

\* C7: an insert into chat_history or image_analysis stores the current
\* time when the body supplies no timestamp, stores a supplied timestamp
\* for image_analysis only, and never stores a NULL timestamp.
C7_TimestampDefault ==
    [][\A w \in Workers :
         (req[w].op = "POST" /\ Executed(w)
            /\ req[w].table \in {"chat_history", "image_analysis"}) =>
           \A row \in txn'[w].ins :
              /\ row.timestamp # NULL
              /\ row.timestamp =
                   IF req[w].table = "image_analysis" /\ HasKey(req[w].json, "timestamp")
                   THEN Get(req[w].json, "timestamp")
                   ELSE <<now>>]_vars

\* C8: a POST to /table/image_analysis whose body has no image_type key
\* stores image_type "surgical_frame"; with the key, the supplied value.
C8_ImageTypeDefault ==
    [][\A w \in Workers :
         (req[w].op = "POST" /\ Finished(w) /\ req[w].table = "image_analysis") =>
           /\ Cardinality(db'["image_analysis"] \ db["image_analysis"]) = 1
           /\ \A row \in db'["image_analysis"] \ db["image_analysis"] :
                row.image_type =
                  IF \E i \in DOMAIN req[w].json : req[w].json[i][1] = "image_type"
                  THEN Get(req[w].json, "image_type")
                  ELSE <<"surgical_frame">>]_vars

C8_Witness ==
    /\ \E row \in db["image_analysis"] : row.image_type = <<"surgical_frame">>
    /\ \E row \in db["image_analysis"] : row.image_type = NULL

\* C9: when a response has been produced, the request that produced it
\* holds no open connection, on the failure paths too.
C9_ConnectionClosed ==
    \A w \in Workers : (pc[w] = "idle" /\ resp[w].status # 0) => conn[w] = "none"

\* C10: two concurrent DELETE /table/chat_history/{id} for the same existing
\* id, neither hit by a database error: one answers 200 with the row, the
\* other 404; the row is gone and the other rows are unchanged.
C10_OneDeleteWins ==
    \A w, o \in Workers :
        (/\ w # o
         /\ req[w].op = "DELETE_ID" /\ req[o].op = "DELETE_ID"
         /\ req[w].chat_id = req[o].chat_id
         /\ \E row \in RaceRows : row.chat_id = <<req[w].chat_id>>
         /\ resp[w].status \in {200, 404} /\ resp[o].status \in {200, 404})
        => /\ {resp[w].status, resp[o].status} = {200, 404}
           /\ \A row \in resp[w].rows \cup resp[o].rows : row.chat_id = <<req[w].chat_id>>
           /\ db["chat_history"] = {row \in RaceRows : row.chat_id # <<req[w].chat_id>>}

C10_Witness ==
    \E w, o \in Workers :
        /\ req[w].op = "DELETE_ID" /\ req[o].op = "DELETE_ID"
        /\ req[w].chat_id = 1 /\ req[o].chat_id = 1
        /\ resp[w].status = 200 /\ resp[o].status = 404

====
